---- MODULE Spec2Model ----
(***************************************************************************)
(* Model of the live-chat polling engine of youtube_client.py:             *)
(* YouTubeClient.poll_chat (the FETCH / DISPATCH / SLEEP / BACKOFF loop)   *)
(* and YouTubeClient.poll_chat_with_quota (the quota planner that calls    *)
(* it).                                                                    *)
(*                                                                         *)
(* Durations are Python floats in the source; here they are exact          *)
(* rationals <<n, d>> (d > 0, lowest terms), in seconds.                   *)
(*                                                                         *)
(* The message feed is a sequence of messages 1 .. MaxMsgs.  A page token  *)
(* is the number of the last message of the page that carried it; a FETCH  *)
(* with token p returns messages p+1 .. q for some q >= p (no token: the   *)
(* feed is read from its start).  A page holds at most maxResults = 200    *)
(* messages, more than the feed of the model ever holds.                   *)
(*                                                                         *)
(* The client also holds the credential (refresh_if_needed) and the two    *)
(* discovery caches (set_channel_id, _get_channel_id,                      *)
(* get_active_live_chat_id), and main.py runs it: background_poller calls   *)
(* the resolver and poll_chat, with handle_message as the handler.  The    *)
(* specifications share the variables: Spec and FairSpec run the loop with *)
(* a credential that stays valid, QuietSpec runs it on a silent feed with  *)
(* any credential, ClientSpec runs the credential and discovery methods    *)
(* while time passes, BotSpec runs background_poller with handle_message,  *)
(* and PollerSpec runs background_poller on a silent chat.                 *)
(***************************************************************************)
EXTENDS Integers, Sequences, FiniteSets, TLC

\* ------------------------------------------------------------------ bounds
MaxMsgs == 3        \* messages the feed ever holds
MaxFails == 8       \* the count of consecutive failed iterations saturates here
ClockCap == 6       \* the clock of the quota window saturates here (seconds)
MaxTicks == 2       \* the times the clock of the caches is moved on

\* ------------------------------------------------------- program constants
DefaultMinPollSeconds == 2      \* self.min_poll_seconds = 2.0
DefaultMaxPollSeconds == 60     \* self.max_poll_seconds = 60.0
DefaultPollingMillis == 2000    \* resp.get("pollingIntervalMillis", 2000)
MillisPerSecond == 1000         \* ... / 1000.0
BaseBackoff == 1                \* error_backoff = 1.0
BackoffFloor == 1               \* max(1.0, error_backoff)
BackoffFactor == 2              \* error_backoff * 2.0
CacheTtl == 30                  \* self._cache_ttl = 30
ChannelCacheTtl == 3600         \* self._channel_cache_ttl = 3600

\* -------------------------------------------------------------- rationals
Abs(n) == IF n < 0 THEN -n ELSE n

RECURSIVE GCD(_, _)
GCD(a, b) == IF b = 0 THEN a ELSE GCD(b, a % b)

\* n / d as a float division of the source (d > 0)
Rat(n, d) == LET g == GCD(Abs(n), d) IN <<n \div g, d \div g>>
FromInt(n) == <<n, 1>>
RLt(a, b) == a[1] * b[2] < b[1] * a[2]
RLe(a, b) == a[1] * b[2] <= b[1] * a[2]
\* Python's min(a, b) and max(a, b)
RMin(a, b) == IF RLt(b, a) THEN b ELSE a
RMax(a, b) == IF RLt(a, b) THEN b ELSE a
RAdd(a, b) == Rat(a[1] * b[2] + b[1] * a[2], a[2] * b[2])
RTimes(a, k) == Rat(a[1] * k, a[2])

IMin(a, b) == IF b < a THEN b ELSE a
IMax(a, b) == IF a < b THEN b ELSE a

RECURSIVE Pow2(_)
Pow2(n) == IF n <= 0 THEN 1 ELSE 2 * Pow2(n - 1)

\* ------------------------------------------------------------ input sets
NoToken == -1                   \* page_token None
Zero == FromInt(0)
NoneArg == [some |-> FALSE, v |-> Zero]
Some(r) == [some |-> TRUE, v |-> r]

\* min_poll_seconds / max_poll_seconds arguments of a direct poll_chat call
PollArgs ==
    {<<NoneArg, NoneArg>>, <<NoneArg, Some(FromInt(3))>>,
     <<Some(FromInt(5)), Some(FromInt(3))>>, <<Some(FromInt(5)), NoneArg>>}
\* live_chat_id arguments ("" is falsy)
ChatIds == {"", "chat1"}

\* pollingIntervalMillis of a response: absent, a number, or not a number
\* (JSON null, a string): the response is an untyped map
Pacings ==
    {[kind |-> "absent", ms |-> 0], [kind |-> "bad", ms |-> 0]}
    \cup {[kind |-> "int", ms |-> m] : m \in {500, 10000, 70000}}

\* (target_units, units_per_request, duration_seconds) of poll_chat_with_quota
QuotaInputs ==
    {<<10000, 5, 10800>>, <<40, 5, 120>>, <<1, 5, 7>>, <<10, 0, 3>>,
     <<-3, -1, 100>>, <<10, 2, 0>>, <<10, 2, -1>>}

VARIABLES
    pc,                 \* position in poll_chat / poll_chat_with_quota
    mode,               \* the entry point called last ("none": none so far)
    min_poll_seconds,   \* self.min_poll_seconds
    max_poll_seconds,   \* self.max_poll_seconds
    target_units,       \* arguments of poll_chat_with_quota
    units_per_request,
    duration_seconds,
    allowed_requests,   \* locals of poll_chat_with_quota
    interval_by_quota,
    min_poll,           \* locals of poll_chat
    max_poll,
    page_token,
    error_backoff,
    resp,               \* the page the last FETCH returned
    idx,                \* position of the for loop over items (next to dispatch)
    exc,                \* the exception being handled ("none" when there is none)
    sleeping,           \* the argument of the time.sleep in progress
    \* history (not in the source)
    sentToken,          \* pageToken of the last FETCH issued
    pageLog,            \* messages handed to on_message for the current page
    raisedAt,           \* first position of the current page where on_message
                        \* raised (0: nowhere so far)
    delivered,          \* the messages handed to on_message since the feed was
                        \* last read from its start on purpose (first FETCH,
                        \* or a page without continuation token adopted)
    redispatch,         \* the message just handed to on_message had been handed before
    lastFail,           \* what failed last, since the last page was returned:
                        \* "none", "fetch" (the FETCH raised) or "pacing"
    fails,              \* consecutive failed iterations (saturates at MaxFails)
    window,             \* the first duration_seconds of a quota run, while no
                        \* FETCH has failed: the time since the first FETCH
                        \* and the FETCHes issued in it
    \* the credential and the discovery caches of the client
    creds,              \* self._creds: expired, refresh_token (present or not), token
    stored,             \* the token of the record in TOKEN_PATH (Truncated:
                        \* the file holds no complete record)
    youtube,            \* self._youtube: the token of the credential it was built with
    cached_channel_id,  \* self._cached_channel_id
    cached_live_chat_id,\* self._cached_live_chat_id
    ret,                \* what the last get_active_live_chat_id returned
    \* history (not in the source)
    gateExc,            \* what the last refresh_if_needed caught ("none": nothing)
    calls,              \* the refresh_if_needed calls and the remote calls of
                        \* the operation in progress (in the loop of
                        \* poll_chat: of the iteration in progress)
    channel_id,         \* locals of get_active_live_chat_id
    video_id,
    age,                \* for each cache: the TTL of its last set and the
                        \* time since (saturates at the TTL)
    ticks,              \* the times the clock of the caches was moved on
    \* main.py
    cooldowns,          \* for each author: now - cooldowns.get(author_id, 0),
                        \* in seconds (saturates at COOLDOWN_SECONDS)
    handling,           \* handle_message has accepted a mention and is at work
    item,               \* the message last handed to handle_message and what
                        \* became of it
    \* history (not in the source)
    watching,           \* the chat id background_poller called poll_chat with
    replies             \* for each author: the chat of the last reply posted
                        \* and the time since (saturates at COOLDOWN_SECONDS)

vars ==
    <<pc, mode, min_poll_seconds, max_poll_seconds, target_units,
      units_per_request, duration_seconds, allowed_requests, interval_by_quota,
      min_poll, max_poll, page_token, error_backoff, resp, idx, exc, sleeping,
      sentToken, pageLog, raisedAt, delivered, redispatch, lastFail, fails,
      window, creds, stored, youtube, cached_channel_id, cached_live_chat_id,
      ret, gateExc, calls, channel_id, video_id, age, ticks, cooldowns,
      handling, item, watching, replies>>

botVars == <<cooldowns, handling, item, watching, replies>>
cacheVars == <<cached_channel_id, cached_live_chat_id, age>>
locals == <<channel_id, video_id>>
clientVars ==
    <<min_poll_seconds, max_poll_seconds, cacheVars, ret, locals, ticks,
      botVars>>
gateVars == <<creds, stored, youtube, gateExc>>
quotaVars ==
    <<target_units, units_per_request, duration_seconds, allowed_requests,
      interval_by_quota>>
boundVars == <<min_poll, max_poll>>
pageVars == <<resp, idx, pageLog, raisedAt, redispatch>>

ClosedWindow == [open |-> FALSE, elapsed |-> Zero, fetches |-> 0]
NewWindow == [open |-> TRUE, elapsed |-> Zero, fetches |-> 0]

EmptyResp ==
    [items |-> <<>>, nextPageToken |-> NoToken,
     pollingIntervalMillis |-> [kind |-> "absent", ms |-> 0]]

\* ids are strings; None is the string "None", and "" is the empty id
NoneId == "None"

\* (variant) every value counts as present
FalsyNever(id) == FALSE

\* (variant) None is taken for an id
FalsyOnlyEmpty(id) == id = ""

\* "not id": None and the empty string
Falsy(id) == id = NoneId \/ id = ""

\* the values of the access token; Truncated stands for a TOKEN_PATH that
\* holds no complete record
Tokens == {1, 2}
Truncated == 0

\* time is measured from the present: time.time() is the origin, and the
\* passing of d seconds moves every stored expiry d seconds closer
TimeNow == 0

NoChannelCache == [set |-> FALSE, channel_id |-> NoneId, expiry |-> 0]
NoChatCache ==
    [set |-> FALSE, live_chat_id |-> NoneId, video_id |-> NoneId, expiry |-> 0]
NoAge == [ttl |-> -1, e |-> 0]
NoRet == [live_chat_id |-> NoneId, video_id |-> NoneId]

\* _load_credentials_and_build: the credential of TOKEN_PATH and a handle
\* built with it
Loaded(expired, refresh_token) ==
    /\ creds = [expired |-> expired, refresh_token |-> refresh_token,
                token |-> 1]
    /\ stored = 1
    /\ youtube = 1

\* what __init__ leaves besides the credential: the polling configuration
\* and empty caches, nothing called yet
\* main.py line 19
COOLDOWN_SECONDS == 30

\* the viewers who write to the chat
Authors == {"viewer1", "viewer2"}

\* no message handled so far; no reply posted to the author so far
NoItem == [author |-> NoneId, kind |-> "none", verdict |-> "none"]
NoReply == [chat |-> NoneId, e |-> COOLDOWN_SECONDS]

InitClient ==
    /\ pc = "idle"
    /\ mode = "none"
    /\ min_poll_seconds = FromInt(DefaultMinPollSeconds)
    /\ max_poll_seconds = FromInt(DefaultMaxPollSeconds)
    /\ target_units = 0
    /\ units_per_request = 0
    /\ duration_seconds = 0
    /\ allowed_requests = 0
    /\ interval_by_quota = Zero
    /\ min_poll = Zero
    /\ max_poll = Zero
    /\ page_token = NoToken
    /\ error_backoff = Zero
    /\ resp = EmptyResp
    /\ idx = 1
    /\ exc = "none"
    /\ sleeping = Zero
    /\ sentToken = NoToken
    /\ pageLog = <<>>
    /\ raisedAt = 0
    /\ delivered = {}
    /\ redispatch = FALSE
    /\ lastFail = "none"
    /\ fails = 0
    /\ window = ClosedWindow
    /\ cached_channel_id = NoChannelCache
    /\ cached_live_chat_id = NoChatCache
    /\ ret = NoRet
    /\ gateExc = "none"
    /\ calls = <<>>
    /\ channel_id = NoneId
    /\ video_id = NoneId
    /\ age = [channel |-> NoAge, chat |-> NoAge, list |-> NoAge]
    /\ ticks = 0
    /\ cooldowns = [a \in Authors |-> COOLDOWN_SECONDS]
    /\ handling = FALSE
    /\ item = NoItem
    /\ watching = NoneId
    /\ replies = [a \in Authors |-> NoReply]

\* YouTubeClient.__init__ with a credential that stays valid while the
\* client runs
Init ==
    /\ InitClient
    /\ Loaded(FALSE, TRUE)

\* ------------------------------------------------------ refresh_if_needed
\* how a refresh attempt ends: the refresh raises ("refresh"), or it
\* succeeds with a token and then nothing fails ("ok"), open() raises
\* ("open"), the write raises after open() emptied the file ("write"), or
\* build() raises ("build")
GateOutcomes ==
    {[kind |-> "refresh", token |-> 1]} \cup
    [kind : {"ok", "open", "write", "build"}, token : Tokens]

\* (variant) the refreshed credential is kept in memory only
RefreshIfNeededNoPersist(c, st, yt, o) ==
    IF c.expired /\ c.refresh_token /\ o.kind # "refresh"
    THEN [creds |-> [c EXCEPT !.expired = FALSE, !.token = o.token],
          stored |-> st, youtube |-> yt, exc |-> "none"]
    ELSE [creds |-> c, stored |-> st, youtube |-> yt, exc |-> "none"]

\* lines 78-96: the credential, the record of TOKEN_PATH and the handle
\* after refresh_if_needed, and what its except clause caught
RefreshIfNeeded(c, st, yt, o) ==
    IF c.expired /\ c.refresh_token
    THEN IF o.kind = "refresh"
         THEN [creds |-> c, stored |-> st, youtube |-> yt, exc |-> "refresh"]
         ELSE LET c2 == [c EXCEPT !.expired = FALSE, !.token = o.token]
              IN IF o.token = c.token
                 THEN [creds |-> c2, stored |-> st, youtube |-> yt,
                       exc |-> "none"]
                 ELSE CASE o.kind = "open" ->
                             [creds |-> c2, stored |-> st, youtube |-> yt,
                              exc |-> "open"]
                        [] o.kind = "write" ->
                             [creds |-> c2, stored |-> Truncated,
                              youtube |-> yt, exc |-> "write"]
                        [] o.kind = "build" ->
                             [creds |-> c2, stored |-> o.token,
                              youtube |-> yt, exc |-> "build"]
                        [] OTHER ->
                             [creds |-> c2, stored |-> o.token,
                              youtube |-> o.token, exc |-> "none"]
    ELSE [creds |-> c, stored |-> st, youtube |-> yt, exc |-> "none"]

\* the credential cannot be used and cannot be made usable
Unusable(c) == c.expired /\ ~c.refresh_token

\* the entries of calls: a call of refresh_if_needed, and a remote call with
\* the usability of the credential it was made with and what came of it
Call(name) == [op |-> name, usable |-> TRUE, out |-> "none"]
RemoteCall(name, c, out) == [op |-> name, usable |-> ~Unusable(c), out |-> out]

\* the state after self.refresh_if_needed()
Gate(g) ==
    /\ creds' = g.creds
    /\ stored' = g.stored
    /\ youtube' = g.youtube
    /\ gateExc' = g.exc

\* ------------------------------------------------------- poll_chat: entry
\* lines 255-264: the argument check and the locals of the loop
PollChatEntry(chat, minArg, maxArg) ==
    IF chat = ""
    THEN /\ pc' = "raised"
         /\ exc' = "ValueError"
         /\ calls' = <<>>
         /\ UNCHANGED <<min_poll, max_poll, page_token, error_backoff,
                        gateVars>>
    ELSE /\ pc' = "fetch"
         /\ exc' = "none"
         /\ \E o \in GateOutcomes :
                Gate(RefreshIfNeeded(creds, stored, youtube, o))
         /\ calls' = <<Call("refresh_if_needed")>>
         /\ page_token' = NoToken
         /\ error_backoff' = FromInt(BaseBackoff)
         /\ min_poll' = IF minArg.some THEN minArg.v ELSE min_poll_seconds
         /\ max_poll' = IF maxArg.some THEN maxArg.v ELSE max_poll_seconds

CallPollChat ==
    /\ pc = "idle"
    /\ \E chat \in ChatIds, args \in PollArgs :
           PollChatEntry(chat, args[1], args[2])
    /\ mode' = "poll_chat"
    /\ UNCHANGED <<clientVars, quotaVars, pageVars, sleeping, sentToken,
                   delivered, lastFail, fails, window>>

\* --------------------------------------------- poll_chat_with_quota: entry
\* line 327: max(1, target_units // max(1, units_per_request)); Python's //
\* rounds towards minus infinity, as \div does for a positive divisor
AllowedRequests(t, u) == IMax(1, t \div IMax(1, u))

\* (variant) the interval is not forced into the bounds of the client
IntervalByQuotaUnclamped(d, a, lo, hi) == Rat(d, a)

\* lines 328-330: duration_seconds / allowed_requests, then
\* max(self.min_poll_seconds, min(interval_by_quota, self.max_poll_seconds))
IntervalByQuota(d, a, lo, hi) == RMax(lo, RMin(Rat(d, a), hi))

\* (variant) the quota interval is not handed to poll_chat
QuotaPollArgsNoFloor(iq) == <<NoneArg, NoneArg>>

\* line 344: self.poll_chat(live_chat_id, _on_message, min_poll_seconds=interval_by_quota)
QuotaPollArgs(iq) == <<Some(iq), NoneArg>>

\* (variant) duration_seconds is not checked
QuotaArgsInvalidNoDuration(chat, d) == chat = ""

\* lines 321-324: the arguments that make poll_chat_with_quota raise ValueError
QuotaArgsInvalid(chat, d) == chat = "" \/ d <= 0

CallPollChatWithQuota ==
    /\ pc = "idle"
    /\ mode' = "quota"
    /\ \E chat \in ChatIds, q \in QuotaInputs :
         /\ target_units' = q[1]
         /\ units_per_request' = q[2]
         /\ duration_seconds' = q[3]
         /\ IF QuotaArgsInvalid(chat, q[3])
            THEN /\ pc' = "raised"
                 /\ exc' = "ValueError"
                 /\ calls' = <<>>
                 /\ UNCHANGED <<allowed_requests, interval_by_quota, min_poll,
                                max_poll, page_token, error_backoff, window,
                                gateVars>>
            ELSE LET a == AllowedRequests(q[1], q[2])
                     iq == IntervalByQuota(q[3], a, min_poll_seconds,
                                           max_poll_seconds)
                     args == QuotaPollArgs(iq)
                 IN /\ allowed_requests' = a
                    /\ interval_by_quota' = iq
                    /\ PollChatEntry(chat, args[1], args[2])
                    /\ window' = NewWindow
    /\ UNCHANGED <<clientVars, pageVars, sleeping, sentToken, delivered,
                   lastFail, fails>>

\* -------------------------------------------------- poll_chat: the loop
Position(tok) == IF tok = NoToken THEN 0 ELSE tok

Bump(n, cap) == IF n < cap THEN n + 1 ELSE cap

\* the window after a sleep of d seconds: it closes when duration_seconds
\* have passed (or the clock of the model is at its cap)
Advance(w, d) ==
    LET t == RAdd(w.elapsed, d)
    IN IF w.open /\ RLt(t, FromInt(duration_seconds)) /\ RLt(t, FromInt(ClockCap))
       THEN [w EXCEPT !.elapsed = t]
       ELSE ClosedWindow

\* lines 268-273: liveChatMessages().list(..., pageToken=page_token).execute()
\* is called
IssueFetch ==
    /\ pc = "fetch"
    /\ pc' = "fetching"
    /\ sentToken' = page_token
    /\ window' = IF window.open
                 THEN [window EXCEPT !.fetches = @ + 1]
                 ELSE window
    /\ calls' = Append(calls, RemoteCall("liveChatMessages.list", creds, "none"))
    /\ UNCHANGED <<mode, clientVars, gateVars, quotaVars, boundVars, page_token,
                   error_backoff, pageVars, exc, sleeping, delivered, lastFail,
                   fails>>

\* the call returns a page: the messages that follow the token sent, a
\* continuation token (or none) and a pacing hint
FetchReturn ==
    /\ pc = "fetching"
    /\ LET p == Position(sentToken)
       IN \E q \in p .. MaxMsgs :
            \E nxt \in {q, NoToken}, pim \in Pacings :
                resp' = [items |-> [i \in 1 .. (q - p) |-> p + i],
                         nextPageToken |-> nxt,
                         pollingIntervalMillis |-> pim]
    /\ pc' = "dispatch"
    /\ idx' = 1
    /\ pageLog' = <<>>
    /\ raisedAt' = 0
    /\ redispatch' = FALSE
    /\ lastFail' = "none"
    /\ UNCHANGED <<mode, clientVars, gateVars, calls, quotaVars, boundVars, page_token,
                   error_backoff, exc, sleeping, sentToken, delivered, fails,
                   window>>

\* the call raises: HttpError (transient or permanent), or anything else
FetchRaise ==
    /\ pc = "fetching"
    /\ \E e \in {"HttpError", "Exception"} : exc' = e
    /\ pc' = "except"
    /\ lastFail' = "fetch"
    /\ fails' = Bump(fails, MaxFails)
    /\ window' = ClosedWindow
    /\ UNCHANGED <<mode, clientVars, gateVars, calls, quotaVars, boundVars, page_token,
                   error_backoff, pageVars, sleeping, sentToken, delivered>>

\* (variant) the exception of on_message ends the for loop
AfterHandlerBreaks(outcome, i) ==
    IF outcome = "raise" THEN Len(resp.items) + 1 ELSE i + 1

\* lines 277-281: where the for loop stands after on_message(it) returned or
\* raised: the exception is caught and logged (in poll_chat_with_quota, by
\* the wrapper of lines 336-341) and the loop goes on to the next item
AfterHandler(outcome, i) == i + 1

\* lines 276-281: one turn of the for loop
Dispatch ==
    /\ pc = "dispatch"
    /\ idx <= Len(resp.items)
    /\ LET it == resp.items[idx]
       IN /\ pageLog' = Append(pageLog, it)
          /\ delivered' = delivered \cup {it}
          /\ redispatch' = (it \in delivered)
    /\ \E outcome \in {"ok", "raise"} :
          /\ raisedAt' = IF outcome = "raise" /\ raisedAt = 0 THEN idx ELSE raisedAt
          /\ idx' = AfterHandler(outcome, idx)
    /\ UNCHANGED <<pc, mode, clientVars, gateVars, calls, quotaVars, boundVars, page_token,
                   error_backoff, resp, exc, sleeping, sentToken, lastFail,
                   fails, window>>

\* (variant) the lower bound is not enforced
PollingNoFloor(pim, lo, hi) ==
    LET s == Rat(IF pim.kind = "absent" THEN DefaultPollingMillis ELSE pim.ms,
                 MillisPerSecond)
    IN IF RLt(hi, s) THEN hi ELSE s

\* lines 284-289: the pacing hint in seconds, forced into the bounds
Polling(pim, lo, hi) ==
    LET s == Rat(IF pim.kind = "absent" THEN DefaultPollingMillis ELSE pim.ms,
                 MillisPerSecond)
        a == IF RLt(s, lo) THEN lo ELSE s
    IN IF RLt(hi, a) THEN hi ELSE a

\* (variant) a page without continuation token leaves page_token as it was
AdoptTokenIfPresent(r, tok) ==
    IF r.nextPageToken = NoToken THEN tok ELSE r.nextPageToken

\* line 291: page_token = resp.get("nextPageToken")
AdoptToken(r, tok) == r.nextPageToken

\* lines 284-295, after the for loop: a pacing hint that is not a number
\* makes the division raise TypeError; otherwise the token is adopted, the
\* backoff is reset and the loop sleeps
Pace ==
    /\ pc = "dispatch"
    /\ idx > Len(resp.items)
    /\ IF resp.pollingIntervalMillis.kind = "bad"
       THEN /\ pc' = "except"
            /\ exc' = "Exception"
            /\ lastFail' = "pacing"
            /\ fails' = Bump(fails, MaxFails)
            /\ UNCHANGED <<page_token, error_backoff, sleeping, delivered>>
       ELSE /\ pc' = "sleep"
            /\ sleeping' = Polling(resp.pollingIntervalMillis, min_poll, max_poll)
            /\ page_token' = AdoptToken(resp, page_token)
            /\ error_backoff' = FromInt(BaseBackoff)
            /\ fails' = 0
            /\ delivered' = IF resp.nextPageToken = NoToken THEN {} ELSE delivered
            /\ UNCHANGED <<exc, lastFail>>
    /\ UNCHANGED <<mode, clientVars, gateVars, calls, quotaVars, boundVars, pageVars, sentToken,
                   window>>

\* resp and the position of the for loop are dead once the iteration is over
\* (the next FETCH overwrites them): the model forgets them there
ForgetPage ==
    /\ resp' = EmptyResp
    /\ idx' = 1
    /\ pageLog' = <<>>
    /\ raisedAt' = 0
    /\ redispatch' = FALSE

\* line 295: time.sleep(polling) returns
Wake ==
    /\ pc = "sleep"
    /\ pc' = "fetch"
    /\ window' = Advance(window, sleeping)
    /\ sleeping' = Zero
    /\ ForgetPage
    /\ calls' = <<>>
    /\ UNCHANGED <<mode, clientVars, gateVars, quotaVars, boundVars, page_token,
                   error_backoff, exc, sentToken, delivered, lastFail, fails>>

\* lines 304, 309: min(max(1.0, error_backoff), max_poll)
BackoffDelay(eb, hi) == RMin(RMax(FromInt(BackoffFloor), eb), hi)

\* (variant) error_backoff doubled without the cap
NextBackoffUncapped(eb, hi) == RTimes(eb, BackoffFactor)

\* lines 305, 310: min(error_backoff * 2.0, max_poll)
NextBackoff(eb, hi) == RMin(RTimes(eb, BackoffFactor), hi)

\* (variant) the except clauses drop the page token
GoBackoffRewind ==
    /\ pc' = "backoff_sleep"
    /\ sleeping' = BackoffDelay(error_backoff, max_poll)
    /\ page_token' = NoToken
    /\ UNCHANGED <<mode, clientVars, gateVars, calls, quotaVars, boundVars, error_backoff,
                   pageVars, exc, sentToken, delivered, lastFail, fails,
                   window>>

\* what the two except clauses do up to their time.sleep: page_token is not
\* assigned
GoBackoff ==
    /\ pc' = "backoff_sleep"
    /\ sleeping' = BackoffDelay(error_backoff, max_poll)
    /\ UNCHANGED <<mode, clientVars, gateVars, calls, quotaVars, boundVars, page_token,
                   error_backoff, pageVars, exc, sentToken, delivered,
                   lastFail, fails, window>>

\* (variant) an HttpError is retried at once
ExceptHttpErrorNoSleep ==
    /\ pc = "except"
    /\ exc = "HttpError"
    /\ pc' = "fetch"
    /\ calls' = <<>>
    /\ UNCHANGED <<mode, clientVars, gateVars, quotaVars, boundVars, page_token,
                   error_backoff, pageVars, exc, sleeping, sentToken,
                   delivered, lastFail, fails, window>>

\* lines 297-304: except HttpError
ExceptHttpError ==
    /\ pc = "except"
    /\ exc = "HttpError"
    /\ GoBackoff

\* (variant) the second except clause lets the exception out of poll_chat
ExceptExceptionReraises ==
    /\ pc = "except"
    /\ exc = "Exception"
    /\ pc' = "raised"
    /\ UNCHANGED <<mode, clientVars, gateVars, calls, quotaVars, boundVars, page_token,
                   error_backoff, pageVars, exc, sleeping, sentToken,
                   delivered, lastFail, fails, window>>

\* lines 306-309: except Exception
ExceptException ==
    /\ pc = "except"
    /\ exc = "Exception"
    /\ GoBackoff

\* lines 305, 310: the backoff sleep returns, error_backoff is doubled and
\* the while loop goes round
BackoffWake ==
    /\ pc = "backoff_sleep"
    /\ pc' = "fetch"
    /\ error_backoff' = NextBackoff(error_backoff, max_poll)
    /\ exc' = "none"
    /\ window' = Advance(window, sleeping)
    /\ sleeping' = Zero
    /\ ForgetPage
    /\ calls' = <<>>
    /\ UNCHANGED <<mode, clientVars, gateVars, quotaVars, boundVars, page_token,
                   sentToken, delivered, lastFail, fails>>

Next ==
    \/ CallPollChat
    \/ CallPollChatWithQuota
    \/ IssueFetch
    \/ FetchReturn
    \/ FetchRaise
    \/ Dispatch
    \/ Pace
    \/ Wake
    \/ ExceptHttpError
    \/ ExceptException
    \/ BackoffWake

Spec == Init /\ [][Next]_vars

\* the thread that runs the loop keeps running: every call and every sleep
\* returns
FairSpec == Spec /\ WF_vars(Next)

\* ------------------------------------------------------- discovery caches
\* the ttl arguments of set_channel_id: None, 0 and 1
TtlArgs ==
    {[some |-> FALSE, v |-> 0], [some |-> TRUE, v |-> 0], [some |-> TRUE, v |-> 1]}

\* the channel ids handed to set_channel_id
ManualChannelIds == {"UCmanual"}

\* the TTL the caller of set_channel_id asks for: ttl, or the default of
\* the client when ttl is None
AskedTtl(ttl) == IF ttl.some THEN ttl.v ELSE ChannelCacheTtl

\* line 100: ttl if ttl is not None else self._channel_cache_ttl
SetChannelTtl(ttl) == IF ttl.some THEN ttl.v ELSE ChannelCacheTtl

\* lines 98-102: set_channel_id(channel_id, ttl)
CallSetChannelId ==
    /\ pc = "idle"
    /\ mode' = "set_channel_id"
    /\ \E id \in ManualChannelIds, ttl \in TtlArgs :
         /\ cached_channel_id' =
                [set |-> TRUE, channel_id |-> id,
                 expiry |-> TimeNow + SetChannelTtl(ttl)]
         /\ age' = [age EXCEPT !.channel = [ttl |-> AskedTtl(ttl), e |-> 0]]
    /\ calls' = <<>>
    /\ pc' = "returned"
    /\ UNCHANGED <<ticks, botVars, min_poll_seconds, max_poll_seconds,
                   cached_live_chat_id, ret, locals, gateVars, quotaVars, boundVars, page_token,
                   error_backoff, pageVars, exc, sleeping, sentToken, delivered,
                   lastFail, fails, window>>

\* (variant) the entry is still returned at its expiry time
FreshAtExpiry(cache) == cache.set /\ TimeNow <= cache.expiry

\* lines 107-112, 161-165: the cached entry may be returned
Fresh(cache) == cache.set /\ TimeNow < cache.expiry

\* what channels().list(part="id", mine=True, maxResults=1).execute() does:
\* it returns an item, returns none, or raises
ChannelsOutcomes == {"item", "empty", "HttpError", "Exception"}
OwnChannelId == "UCown"

\* lines 104-138: _get_channel_id; o and r are the outcomes of the refresh
\* attempt and of channels().list
GetChannelId(cache, c, st, yt, o, r) ==
    IF Fresh(cache)
    THEN [channel_id |-> cache.channel_id, cache |-> cache, fetched |-> FALSE,
          creds |-> c, stored |-> st, youtube |-> yt, exc |-> "none",
          calls |-> <<>>]
    ELSE LET g == RefreshIfNeeded(c, st, yt, o)
         IN [channel_id |-> IF r = "item" THEN OwnChannelId ELSE NoneId,
             cache |-> IF r = "item"
                       THEN [set |-> TRUE, channel_id |-> OwnChannelId,
                             expiry |-> TimeNow + ChannelCacheTtl]
                       ELSE NoChannelCache,
             fetched |-> TRUE,
             creds |-> g.creds, stored |-> g.stored, youtube |-> g.youtube,
             exc |-> g.exc,
             calls |-> <<Call("refresh_if_needed"),
                         RemoteCall("channels.list", g.creds, r)>>]

\* the age of the channel cache after _get_channel_id
ChannelAge(a, ch) ==
    IF ch.fetched /\ ch.cache.set THEN [ttl |-> ChannelCacheTtl, e |-> 0] ELSE a

\* the time since channels().list was last called, after _get_channel_id
ListAge(a, ch) ==
    IF ch.fetched THEN [ttl |-> ChannelCacheTtl, e |-> 0] ELSE a

\* (variant) refresh_if_needed is called before the cached entry is returned
CacheHitRefreshes ==
    /\ ret' = [live_chat_id |-> cached_live_chat_id.live_chat_id,
               video_id |-> cached_live_chat_id.video_id]
    /\ \E o \in GateOutcomes : Gate(RefreshIfNeeded(creds, stored, youtube, o))
    /\ calls' = <<Call("refresh_if_needed")>>
    /\ pc' = "returned"
    /\ UNCHANGED cacheVars

\* lines 162-164: the fresh entry is returned
CacheHit ==
    /\ ret' = [live_chat_id |-> cached_live_chat_id.live_chat_id,
               video_id |-> cached_live_chat_id.video_id]
    /\ calls' = <<>>
    /\ pc' = "returned"
    /\ UNCHANGED <<cacheVars, gateVars>>

\* lines 152-167: get_active_live_chat_id() up to its try: a fresh entry is
\* returned; otherwise the entry is dropped and refresh_if_needed is called
CallGetActiveLiveChatId ==
    /\ pc = "idle"
    /\ mode' = "get_active_live_chat_id"
    /\ IF Fresh(cached_live_chat_id)
       THEN CacheHit
       ELSE /\ pc' = "channel"
            /\ cached_live_chat_id' = NoChatCache
            /\ \E o \in GateOutcomes :
                   Gate(RefreshIfNeeded(creds, stored, youtube, o))
            /\ calls' = <<Call("refresh_if_needed")>>
            /\ UNCHANGED <<cached_channel_id, age, ret>>
    /\ UNCHANGED <<ticks, botVars, min_poll_seconds, max_poll_seconds, locals, quotaVars,
                   boundVars, page_token, error_backoff, pageVars, exc,
                   sleeping, sentToken, delivered, lastFail, fails, window>>

\* get_active_live_chat_id returns r
Return(r) ==
    /\ pc' = "returned"
    /\ ret' = r
    /\ channel_id' = NoneId
    /\ video_id' = NoneId

\* lines 172-175: channel_id = self._get_channel_id(); without a channel id
\* (None, None) is returned
ResolveChannel ==
    /\ pc = "channel"
    /\ \E o \in GateOutcomes, r \in ChannelsOutcomes :
         LET ch == GetChannelId(cached_channel_id, creds, stored, youtube, o, r)
         IN /\ creds' = ch.creds
            /\ stored' = ch.stored
            /\ youtube' = ch.youtube
            /\ gateExc' = IF ch.fetched THEN ch.exc ELSE gateExc
            /\ cached_channel_id' = ch.cache
            /\ age' = [age EXCEPT !.channel = ChannelAge(@, ch),
                                  !.list = ListAge(@, ch)]
            /\ calls' = calls \o ch.calls
            /\ IF Falsy(ch.channel_id)
               THEN Return(NoRet)
               ELSE /\ pc' = "search"
                    /\ channel_id' = ch.channel_id
                    /\ UNCHANGED <<ret, video_id>>
    /\ UNCHANGED <<mode, ticks, botVars, min_poll_seconds, max_poll_seconds,
                   cached_live_chat_id, quotaVars, boundVars, page_token,
                   error_backoff, pageVars, exc, sleeping, sentToken,
                   delivered, lastFail, fails, window>>

\* search.list is in the log of the calls
HasSearch == \E i \in 1 .. Len(calls) : calls[i].op = "search.list"

\* what search().list(...).execute() does: it returns a live video, returns
\* no item, or raises
SearchOutcomes == {"video", "empty", "HttpError", "Exception"}
LiveVideoId == "video1"

\* (variant) a search that raises HttpError is issued again
SearchRetries ==
    /\ pc = "search"
    /\ \E sr \in SearchOutcomes :
         /\ calls' = Append(calls, RemoteCall("search.list", creds, sr))
         /\ IF sr = "video"
            THEN /\ pc' = "videos"
                 /\ video_id' = LiveVideoId
                 /\ UNCHANGED <<ret, channel_id>>
            ELSE IF sr = "HttpError" /\ ~HasSearch
            THEN UNCHANGED <<pc, ret, locals>>
            ELSE Return(NoRet)
    /\ UNCHANGED <<mode, ticks, botVars, min_poll_seconds, max_poll_seconds, cacheVars,
                   gateVars, quotaVars, boundVars, page_token, error_backoff,
                   pageVars, exc, sleeping, sentToken, delivered, lastFail,
                   fails, window>>

\* lines 177-192: the search for the live video of the channel; without a
\* result, and when the call raises (lines 210-220), (None, None) is returned
Search ==
    /\ pc = "search"
    /\ \E sr \in SearchOutcomes :
         /\ calls' = Append(calls, RemoteCall("search.list", creds, sr))
         /\ IF sr = "video"
            THEN /\ pc' = "videos"
                 /\ video_id' = LiveVideoId
                 /\ UNCHANGED <<ret, channel_id>>
            ELSE Return(NoRet)
    /\ UNCHANGED <<mode, ticks, botVars, min_poll_seconds, max_poll_seconds, cacheVars,
                   gateVars, quotaVars, boundVars, page_token, error_backoff,
                   pageVars, exc, sleeping, sentToken, delivered, lastFail,
                   fails, window>>

\* what videos().list(part="liveStreamingDetails", id=video_id).execute()
\* does: no items, an item without liveStreamingDetails, details without a chat
\* id, details with activeLiveChatId, details with liveChatId only, the
\* details of a later broadcast, or it raises
VideosOutcomes ==
    {"noitems", "nodetails", "nochat", "active", "legacy", "next", "HttpError",
     "Exception"}
LiveChatId == "chat1"

\* the chat of the broadcast that follows, once the channel has ended the
\* first one and gone live again ("next": activeLiveChatId of that broadcast)
NextLiveChatId == "chat2"

\* (variant) every answer of videos.list is taken to carry a chat id
ChatIdOfAny(vr) == LiveChatId

\* lines 200-204: details.get("activeLiveChatId") or details.get("liveChatId")
ChatIdOf(vr) ==
    IF vr \in {"active", "legacy"} THEN LiveChatId
    ELSE IF vr = "next" THEN NextLiveChatId
    ELSE NoneId

\* lines 194-220: the details of the video; a chat id is cached and returned
\* with the video id, the lack of one returns (None, video_id), and when the
\* call raises (None, None) is returned
Videos ==
    /\ pc = "videos"
    /\ \E vr \in VideosOutcomes :
         /\ calls' = Append(calls, RemoteCall("videos.list", creds, vr))
         /\ IF vr \in {"HttpError", "Exception"}
            THEN /\ Return(NoRet)
                 /\ UNCHANGED <<cached_live_chat_id, age>>
            ELSE IF Falsy(ChatIdOf(vr))
            THEN /\ Return([live_chat_id |-> NoneId, video_id |-> video_id])
                 /\ UNCHANGED <<cached_live_chat_id, age>>
            ELSE /\ Return([live_chat_id |-> ChatIdOf(vr),
                            video_id |-> video_id])
                 /\ cached_live_chat_id' =
                        [set |-> TRUE, live_chat_id |-> ChatIdOf(vr),
                         video_id |-> video_id, expiry |-> TimeNow + CacheTtl]
                 /\ age' = [age EXCEPT !.chat = [ttl |-> CacheTtl, e |-> 0]]
    /\ UNCHANGED <<mode, ticks, botVars, min_poll_seconds, max_poll_seconds, cached_channel_id,
                   gateVars, quotaVars, boundVars, page_token, error_backoff,
                   pageVars, exc, sleeping, sentToken, delivered, lastFail,
                   fails, window>>

\* refresh_if_needed() called on its own
CallRefreshIfNeeded ==
    /\ pc = "idle"
    /\ mode' = "refresh_if_needed"
    /\ \E o \in GateOutcomes : Gate(RefreshIfNeeded(creds, stored, youtube, o))
    /\ calls' = <<Call("refresh_if_needed")>>
    /\ pc' = "returned"
    /\ UNCHANGED <<clientVars, quotaVars, boundVars, page_token,
                   error_backoff, pageVars, exc, sleeping, sentToken, delivered,
                   lastFail, fails, window>>

\* the caller has what the call returned and goes on; the history of the
\* call is forgotten
Resume ==
    /\ pc = "returned"
    /\ pc' = "idle"
    /\ mode' = "none"
    /\ ret' = NoRet
    /\ gateExc' = "none"
    /\ calls' = <<>>
    /\ UNCHANGED <<ticks, botVars, min_poll_seconds, max_poll_seconds, cacheVars, locals,
                   creds, stored, youtube, quotaVars, boundVars, page_token,
                   error_backoff, pageVars, exc, sleeping, sentToken, delivered,
                   lastFail, fails, window>>

\* ------------------------------------------------------------ environment
\* the access token reaches its expiry time
Expire ==
    /\ ~creds.expired
    /\ creds' = [creds EXCEPT !.expired = TRUE]
    /\ UNCHANGED <<pc, mode, clientVars, stored, youtube, gateExc, calls,
                   quotaVars, boundVars, page_token, error_backoff, pageVars,
                   exc, sleeping, sentToken, delivered, lastFail, fails,
                   window>>

\* the instants worth looking at: just before and at the expiry of an entry
TickSteps ==
    {d \in {cached_channel_id.expiry - 1, cached_channel_id.expiry,
            cached_live_chat_id.expiry - 1, cached_live_chat_id.expiry} :
        d >= 1}

Later(cache, d) == [cache EXCEPT !.expiry = IMax(@ - d, 0)]
Older(a, d) == [a EXCEPT !.e = IMin(@ + d, a.ttl)]

\* d seconds pass while the client does nothing
Tick ==
    /\ pc = "idle"
    /\ ticks < MaxTicks
    /\ ticks' = ticks + 1
    /\ \E d \in TickSteps :
         /\ cached_channel_id' = Later(cached_channel_id, d)
         /\ cached_live_chat_id' = Later(cached_live_chat_id, d)
         /\ age' = [channel |-> Older(age.channel, d),
                    chat |-> Older(age.chat, d),
                    list |-> Older(age.list, d)]
    /\ UNCHANGED <<pc, mode, min_poll_seconds, max_poll_seconds, ret, locals,
                   botVars, gateVars, calls, quotaVars, boundVars, page_token,
                   error_backoff, pageVars, exc, sleeping, sentToken, delivered,
                   lastFail, fails, window>>

\* __init__ with any credential TOKEN_PATH can hold
ClientInit ==
    /\ InitClient
    /\ \E e \in BOOLEAN, r \in BOOLEAN : Loaded(e, r)

ClientNext ==
    \/ CallSetChannelId
    \/ CallGetActiveLiveChatId
    \/ ResolveChannel
    \/ Search
    \/ Videos
    \/ Resume
    \/ CallRefreshIfNeeded
    \/ Expire
    \/ Tick

\* the client used from one thread, one call after the other, while time
\* passes and the access token expires
ClientSpec == ClientInit /\ [][ClientNext]_vars

\* ------------------------------------------- the loop with any credential
\* the feed is silent: the page has no message, no continuation token and
\* no pacing hint
QuietFetchReturn ==
    /\ FetchReturn
    /\ resp' = EmptyResp

QuietNext ==
    \/ CallPollChat
    \/ CallPollChatWithQuota
    \/ IssueFetch
    \/ QuietFetchReturn
    \/ Pace
    \/ Wake
    \/ Expire

\* poll_chat and poll_chat_with_quota on a silent feed, called with any
\* credential TOKEN_PATH can hold, while the access token expires
QuietSpec == ClientInit /\ [][QuietNext]_vars

\* ------------------------------------------------------- main.py: the bot
\* what a chat message is to handle_message (lines 37-50): without text, by
\* the bot itself, without a mention of the bot, or a mention
MessageKinds == {"notext", "own", "plain", "mention"}

\* (variant) the comparison of line 58 the other way round
InCooldownReversed(since) == since > COOLDOWN_SECONDS

\* line 58: now - last_ts < COOLDOWN_SECONDS
InCooldown(since) == since < COOLDOWN_SECONDS

\* lines 28-61 and line 278 of youtube_client.py: on_message(it) is
\* handle_message(it); a message that is no mention, or a mention within the
\* cooldown of its author, is dropped; otherwise the time is stored and the
\* handler goes on
HandleMessage ==
    /\ pc = "dispatch"
    /\ idx <= Len(resp.items)
    /\ LET it == resp.items[idx]
       IN /\ pageLog' = Append(pageLog, it)
          /\ delivered' = delivered \cup {it}
          /\ redispatch' = (it \in delivered)
    /\ \E a \in Authors, k \in MessageKinds :
         IF k # "mention"
         THEN /\ item' = [author |-> a, kind |-> k, verdict |-> "ignored"]
              /\ idx' = AfterHandler("ok", idx)
              /\ UNCHANGED <<pc, cooldowns, handling>>
         ELSE IF InCooldown(cooldowns[a])
         THEN /\ item' = [author |-> a, kind |-> k, verdict |-> "cooldown"]
              /\ idx' = AfterHandler("ok", idx)
              /\ UNCHANGED <<pc, cooldowns, handling>>
         ELSE /\ item' = [author |-> a, kind |-> k, verdict |-> "accepted"]
              /\ cooldowns' = [cooldowns EXCEPT ![a] = 0]
              /\ handling' = TRUE
              /\ pc' = "generate"
              /\ UNCHANGED idx
    /\ UNCHANGED <<mode, min_poll_seconds, max_poll_seconds, cacheVars, ret,
                   locals, ticks, watching, replies, gateVars, calls, quotaVars,
                   boundVars, page_token, error_backoff, resp, raisedAt, exc,
                   sleeping, sentToken, lastFail, fails, window>>

\* lines 63-89: generate_reply(prompt) returns a reply or raises, and then
\* the fixed apology is the reply; the handler goes on to line 92
Generate ==
    /\ pc = "generate"
    /\ calls' = <<Call("generate_reply")>>
    /\ pc' = "idle"
    /\ UNCHANGED <<mode, clientVars, gateVars, quotaVars, boundVars, page_token,
                   error_backoff, pageVars, exc, sleeping, sentToken, delivered,
                   lastFail, fails, window>>

\* what liveChatMessages().insert(...).execute() does
InsertOutcomes == {"ok", "HttpError", "Exception"}

\* lines 92-107 with post_message (youtube_client.py lines 222-245): without
\* a chat id the handler returns; otherwise the reply is inserted into the
\* chat the resolver has just returned, and a failure is logged
HandlerPost ==
    /\ pc = "returned"
    /\ handling
    /\ IF Falsy(ret.live_chat_id)
       THEN UNCHANGED <<gateVars, replies>>
       ELSE \E o \in GateOutcomes, out \in InsertOutcomes :
              LET g == RefreshIfNeeded(creds, stored, youtube, o)
              IN /\ Gate(g)
                 /\ replies' =
                       IF out = "ok"
                       THEN [replies EXCEPT ![item.author] =
                                [chat |-> ret.live_chat_id, e |-> 0]]
                       ELSE replies
    /\ calls' = <<>>
    /\ pc' = "dispatch"
    /\ idx' = AfterHandler("ok", idx)
    /\ handling' = FALSE
    /\ ret' = NoRet
    /\ mode' = "poll_chat"
    /\ UNCHANGED <<min_poll_seconds, max_poll_seconds, cacheVars, locals, ticks,
                   cooldowns, item, watching, quotaVars, boundVars, page_token,
                   error_backoff, resp, pageLog, raisedAt, redispatch, exc,
                   sleeping, sentToken, delivered, lastFail, fails, window>>

\* main.py line 126: time.sleep(10)
PollerIdleSeconds == 10

\* (variant) without a live chat the poller gives up
PollerBranchGivesUp ==
    /\ pc = "returned"
    /\ ~handling
    /\ IF ~Falsy(ret.live_chat_id)
       THEN /\ PollChatEntry(ret.live_chat_id, NoneArg, NoneArg)
            /\ mode' = "poll_chat"
            /\ watching' = ret.live_chat_id
            /\ UNCHANGED sleeping
       ELSE /\ pc' = "done"
            /\ calls' = <<>>
            /\ UNCHANGED <<mode, watching, sleeping, exc, gateVars, boundVars,
                           page_token, error_backoff>>
    /\ ret' = NoRet
    /\ UNCHANGED <<min_poll_seconds, max_poll_seconds, cacheVars, locals, ticks,
                   cooldowns, handling, item, replies, quotaVars, pageVars,
                   sentToken, delivered, lastFail, fails, window>>

\* lines 119-126: with a chat id background_poller calls
\* poll_chat(live_chat_id, handle_message); without one it sleeps
PollerBranch ==
    /\ pc = "returned"
    /\ ~handling
    /\ IF ~Falsy(ret.live_chat_id)
       THEN /\ PollChatEntry(ret.live_chat_id, NoneArg, NoneArg)
            /\ mode' = "poll_chat"
            /\ watching' = ret.live_chat_id
            /\ UNCHANGED sleeping
       ELSE /\ pc' = "poller_sleep"
            /\ sleeping' = FromInt(PollerIdleSeconds)
            /\ calls' = <<>>
            /\ UNCHANGED <<mode, watching, exc, gateVars, boundVars,
                           page_token, error_backoff>>
    /\ ret' = NoRet
    /\ UNCHANGED <<min_poll_seconds, max_poll_seconds, cacheVars, locals, ticks,
                   cooldowns, handling, item, replies, quotaVars, pageVars,
                   sentToken, delivered, lastFail, fails, window>>

\* line 126 is over: the while loop of background_poller goes round
PollerWake ==
    /\ pc = "poller_sleep"
    /\ pc' = "idle"
    /\ sleeping' = Zero
    /\ mode' = "none"
    /\ UNCHANGED <<clientVars, gateVars, calls, quotaVars, boundVars,
                   page_token, error_backoff, pageVars, exc, sentToken,
                   delivered, lastFail, fails, window>>

\* the chat is slow: a page holds at most one message; it carries its
\* continuation token and no pacing hint
BotFetchReturn ==
    /\ FetchReturn
    /\ Len(resp'.items) <= 1
    /\ resp'.nextPageToken # NoToken
    /\ resp'.pollingIntervalMillis.kind = "absent"

\* the spans of time worth looking at: a moment, and the rest of a cooldown
PassSteps == {1, COOLDOWN_SECONDS - 1}

\* d seconds pass, wherever the bot stands
Pass ==
    /\ ticks < MaxTicks
    /\ ticks' = ticks + 1
    /\ \E d \in PassSteps :
         /\ cached_channel_id' = Later(cached_channel_id, d)
         /\ cached_live_chat_id' = Later(cached_live_chat_id, d)
         /\ age' = [channel |-> Older(age.channel, d),
                    chat |-> Older(age.chat, d),
                    list |-> Older(age.list, d)]
         /\ cooldowns' =
               [a \in Authors |-> IMin(cooldowns[a] + d, COOLDOWN_SECONDS)]
         /\ replies' =
               [a \in Authors |->
                   [replies[a] EXCEPT !.e = IMin(@ + d, COOLDOWN_SECONDS)]]
    /\ UNCHANGED <<pc, mode, min_poll_seconds, max_poll_seconds, ret, locals,
                   handling, item, watching, gateVars, calls, quotaVars,
                   boundVars, page_token, error_backoff, pageVars, exc,
                   sleeping, sentToken, delivered, lastFail, fails, window>>

\* the steps of the thread that runs background_poller
BotStep ==
    \/ CallGetActiveLiveChatId
    \/ ResolveChannel
    \/ Search
    \/ Videos
    \/ PollerBranch
    \/ PollerWake
    \/ IssueFetch
    \/ BotFetchReturn
    \/ HandleMessage
    \/ Generate
    \/ HandlerPost
    \/ Pace
    \/ Wake

BotNext == BotStep \/ Pass

\* main.py: the thread of background_poller (lines 133-136 start one), with
\* handle_message as the handler of poll_chat, while time passes
BotSpec == Init /\ [][BotNext]_vars

\* the steps of background_poller while the chat it polls is silent
PollerStep ==
    \/ CallGetActiveLiveChatId
    \/ ResolveChannel
    \/ Search
    \/ Videos
    \/ PollerBranch
    \/ PollerWake
    \/ IssueFetch
    \/ QuietFetchReturn
    \/ Pace
    \/ Wake

PollerNext == PollerStep \/ Pass

\* background_poller on a silent chat; its thread is never starved: it is
\* the only thread that runs the bot
PollerSpec == Init /\ [][PollerNext]_vars /\ WF_vars(PollerStep)

\* ---------------------------------------------------------------- claims
InLoop == pc \notin {"idle", "raised"}
One == FromInt(1)
Clamp(x, lo, hi) == RMin(RMax(x, lo), hi)
\* the pacing hint of a page in seconds (2000 ms when the page carries none)
ServerSeconds(pim) ==
    IF pim.kind = "absent" THEN FromInt(2) ELSE Rat(pim.ms, 1000)

\* C1: no message of a page that a FETCH returned is handed to the handler a
\* second time, whatever fails after its dispatch or in later iterations
\* (the feed returns, for a page token, the messages that follow it; a page
\* that carries no token restarts the feed and is not counted against the
\* claim).
NoRedispatch == ~redispatch

\* C2: for every page the handler is invoked once per message, in the order
\* received; an exception of the handler does not stop the dispatch of the
\* rest of the page and is never what sends the loop to the backoff sleep,
\* and when it has raised the page's nextPageToken is still adopted and
\* error_backoff still reset (whenever the page's pacing hint is usable, as
\* for a page on which the handler did not raise).
HandlerIsolation ==
    /\ pc = "dispatch" => pageLog = SubSeq(resp.items, 1, idx - 1)
    /\ (pc = "sleep" \/ (pc \in {"except", "backoff_sleep"} /\ lastFail = "pacing"))
          => pageLog = resp.items
    /\ pc \in {"except", "backoff_sleep"} =>
          \/ lastFail = "fetch"
          \/ lastFail = "pacing" /\ resp.pollingIntervalMillis.kind = "bad"
    /\ (raisedAt # 0 /\ pc # "dispatch" /\ resp.pollingIntervalMillis.kind # "bad") =>
          /\ pc = "sleep"
          /\ page_token = resp.nextPageToken
          /\ error_backoff = One

\* a handler that raised on message 2 of a page of 3: all 3 were dispatched
\* and the token of the page is adopted
HandlerRaisedMidPage ==
    /\ pc = "sleep"
    /\ raisedAt = 2
    /\ pageLog = <<1, 2, 3>>
    /\ resp.nextPageToken = 3
    /\ page_token = 3
    /\ error_backoff = One

\* C3: with max_poll = 60 the k-th consecutive failed iteration sleeps
\* min(2^(k-1), 60) seconds and the first failure after a success sleeps 1;
\* for any max_poll the backoff sleep is min(max(1, error_backoff), max_poll)
\* and error_backoff is doubled, capped at max_poll, after each of them.
BackoffSchedule ==
    /\ pc = "backoff_sleep" =>
          /\ sleeping = RMin(RMax(One, error_backoff), max_poll)
          /\ max_poll = FromInt(60) => sleeping = FromInt(IMin(Pow2(fails - 1), 60))
          /\ fails = 1 => sleeping = RMin(One, max_poll)
    /\ (pc \in {"fetch", "fetching", "dispatch", "sleep"} /\ fails < MaxFails) =>
          error_backoff = RMin(FromInt(Pow2(fails)), max_poll)
    /\ (pc \in {"except", "backoff_sleep"} /\ fails < MaxFails) =>
          error_backoff = RMin(FromInt(Pow2(fails - 1)), max_poll)
    /\ pc = "sleep" => fails = 0 /\ error_backoff = One

\* the seventh failure in a row: the sleep has reached the cap of 60
BackoffReachesCap ==
    /\ pc = "backoff_sleep"
    /\ max_poll = FromInt(60)
    /\ fails = 7
    /\ sleeping = FromInt(60)
    /\ error_backoff = FromInt(60)

\* C4: once poll_chat is in its loop it neither returns nor raises, and
\* after any failure of a fetch, of the handler or of the rest of an
\* iteration another FETCH is issued.
LoopNeverEnds ==
    /\ [][InLoop => InLoop']_vars
    /\ (<>InLoop) => []<><<IssueFetch>>_vars

\* a FETCH issued after two failed iterations in a row
FetchAfterFailures ==
    /\ pc = "fetching"
    /\ fails = 2
    /\ lastFail = "pacing"

\* C5: when the fetch of an iteration raises, the backoff path leaves
\* page_token alone and the next FETCH is issued with the token of the failed
\* one.
RetrySameToken ==
    [][/\ (pc \in {"fetching", "except", "backoff_sleep"} /\ pc' # "dispatch")
            => page_token' = page_token
       /\ (pc = "fetch" /\ pc' = "fetching" /\ lastFail = "fetch")
            => sentToken' = sentToken]_vars

\* a FETCH reissued with token 2 after the FETCH with token 2 raised
RetriedWithToken ==
    /\ pc = "fetching"
    /\ lastFail = "fetch"
    /\ sentToken = 2
    /\ page_token = 2

\* C6: the sleep after a successful iteration is pollingIntervalMillis / 1000
\* (2000 ms when absent) clamped into [min_poll, max_poll]; 500 ms with
\* bounds [2, 60] sleeps 2 s; with min_poll <= max_poll the sleep is within
\* the bounds.
SleepIsClampedPacing ==
    pc = "sleep" =>
        LET pim == resp.pollingIntervalMillis
        IN /\ sleeping = Clamp(ServerSeconds(pim), min_poll, max_poll)
           /\ (pim.kind = "int" /\ pim.ms = 500 /\ min_poll = FromInt(2)
                 /\ max_poll = FromInt(60)) => sleeping = FromInt(2)
           /\ RLe(min_poll, max_poll) =>
                 RLe(min_poll, sleeping) /\ RLe(sleeping, max_poll)

\* a page that asks for 500 ms under the bounds [2, 60]: the sleep is 2 s
ServerHintClampedUp ==
    /\ pc = "sleep"
    /\ mode = "poll_chat"
    /\ resp.pollingIntervalMillis = [kind |-> "int", ms |-> 500]
    /\ min_poll = FromInt(2)
    /\ max_poll = FromInt(60)
    /\ sleeping = FromInt(2)

\* C7: under poll_chat_with_quota the sleep after a successful iteration is
\* max(clamp(server_s, min_poll_seconds, max_poll_seconds), quota interval).
QuotaSleepIsMax ==
    (mode = "quota" /\ pc = "sleep") =>
        sleeping = RMax(Clamp(ServerSeconds(resp.pollingIntervalMillis),
                              min_poll_seconds, max_poll_seconds),
                        interval_by_quota)

\* server 10 s, bounds [2, 60], quota interval 15 s: the sleep is 15 s
QuotaFloorWins ==
    /\ mode = "quota"
    /\ pc = "sleep"
    /\ resp.pollingIntervalMillis = [kind |-> "int", ms |-> 10000]
    /\ interval_by_quota = FromInt(15)
    /\ sleeping = FromInt(15)

\* C8: allowed_requests = max(1, floor(target_units / max(1, units_per_request)))
\* and the interval is duration_seconds / allowed_requests clamped into
\* [min_poll_seconds, max_poll_seconds]; 10000 units at 5 per request over
\* 10800 s give 2000 requests and 5.4 s.
PlannerFormula ==
    (mode = "quota" /\ InLoop) =>
        LET u == IF units_per_request < 1 THEN 1 ELSE units_per_request
            raw == <<duration_seconds, allowed_requests>>
        IN /\ allowed_requests >= 1
           /\ allowed_requests * u <= target_units \/ allowed_requests = 1
           /\ (allowed_requests + 1) * u > target_units
           /\ IF RLt(raw, min_poll_seconds)
              THEN interval_by_quota = min_poll_seconds
              ELSE IF RLt(max_poll_seconds, raw)
                   THEN interval_by_quota = max_poll_seconds
                   ELSE interval_by_quota[1] * allowed_requests
                            = duration_seconds * interval_by_quota[2]
           /\ (target_units = 10000 /\ units_per_request = 5
                 /\ duration_seconds = 10800)
                 => allowed_requests = 2000 /\ interval_by_quota = <<27, 5>>

\* the planner's example: 2000 requests, 5.4 s
PlannerExample ==
    /\ mode = "quota"
    /\ pc = "fetch"
    /\ target_units = 10000
    /\ allowed_requests = 2000
    /\ interval_by_quota = <<27, 5>>
    /\ min_poll = <<27, 5>>

\* C9: on a quota run without fetch failure, the FETCHes issued within
\* duration_seconds cost no more than target_units (stated of a budget that
\* is not negative and a cost per request of at least one unit).
QuotaRespected ==
    (window.open /\ target_units >= 0 /\ units_per_request >= 1) =>
        window.fetches * units_per_request <= target_units

\* C10: under poll_chat_with_quota every sleep between two FETCHes, the
\* backoff sleep included, lasts at least interval_by_quota.
QuotaFloorOnEverySleep ==
    (mode = "quota" /\ pc \in {"sleep", "backoff_sleep"}) =>
        RLe(interval_by_quota, sleeping)

\* ------------------------------------------------ claims C11 to C20
\* C11: poll_chat_with_quota called with duration_seconds <= 0 raises
\* ValueError before anything else happens: no remote call and no
\* refresh_if_needed is made, no handler runs, nothing sleeps, and the
\* credential, the record of TOKEN_PATH, the handle and the caches are as
\* they were
QuotaRejectsBadDuration ==
    [][(pc = "idle" /\ mode' = "quota" /\ duration_seconds' <= 0)
          => /\ pc' = "raised"
             /\ exc' = "ValueError"
             /\ calls' = <<>>
             /\ UNCHANGED <<gateVars, cacheVars, sleeping, pageLog, sentToken,
                            delivered>>]_vars

\* the call was rejected while the credential was expired and refreshable
BadDurationRejected ==
    /\ pc = "raised"
    /\ mode = "quota"
    /\ duration_seconds <= 0
    /\ creds.expired
    /\ creds.refresh_token

HasCall(name) == \E i \in 1 .. Len(calls) : calls[i].op = name
Got(name, out) ==
    \E i \in 1 .. Len(calls) : calls[i].op = name /\ calls[i].out = out

\* C12: a cache entry read e seconds after it was set with TTL t is returned,
\* with no remote call, when e < t; when e >= t it is dropped and not
\* returned (the channel id then comes from channels.list or is None, the
\* chat id from a new discovery); this holds for the channel id set by
\* set_channel_id (t = 0 included) or by the resolver, and for the chat entry
CacheTtlRule ==
    [][/\ (pc = "channel" /\ pc' # "channel" /\ cached_channel_id.set) =>
            IF age.channel.e < age.channel.ttl
            THEN /\ pc' = "search"
                 /\ channel_id' = cached_channel_id.channel_id
                 /\ calls' = calls
                 /\ UNCHANGED cached_channel_id
            ELSE /\ \E r \in ChannelsOutcomes :
                      calls' = calls \o <<Call("refresh_if_needed"),
                                          RemoteCall("channels.list", creds', r)>>
                 /\ \/ /\ cached_channel_id' = NoChannelCache
                       /\ pc' = "returned"
                       /\ ret' = NoRet
                    \/ /\ cached_channel_id' =
                              [set |-> TRUE, channel_id |-> OwnChannelId,
                               expiry |-> ChannelCacheTtl]
                       /\ channel_id' = OwnChannelId
                       /\ age'.channel = [ttl |-> ChannelCacheTtl, e |-> 0]
       /\ (pc = "idle" /\ mode' = "get_active_live_chat_id"
             /\ cached_live_chat_id.set) =>
            IF age.chat.e < age.chat.ttl
            THEN /\ pc' = "returned"
                 /\ ret' = [live_chat_id |-> cached_live_chat_id.live_chat_id,
                            video_id |-> cached_live_chat_id.video_id]
                 /\ calls' = <<>>
                 /\ UNCHANGED cached_live_chat_id
            ELSE /\ pc' = "channel"
                 /\ cached_live_chat_id' = NoChatCache
                 /\ ret' = ret]_vars

\* a channel id set with ttl = 0 was read at once: it was dropped, and
\* channels.list was called (it found no channel)
ZeroTtlEntryDropped ==
    /\ pc = "returned"
    /\ mode = "get_active_live_chat_id"
    /\ age.channel = [ttl |-> 0, e |-> 0]
    /\ ~cached_channel_id.set
    /\ Got("channels.list", "empty")

\* a step that is one call of refresh_if_needed and nothing else
GateStep == pc = "idle" /\ calls' = <<Call("refresh_if_needed")>>

\* C13: refresh_if_needed writes TOKEN_PATH and rebuilds the handle exactly
\* when a refresh changed the token: a credential that is not expired or has
\* no refresh token is left alone with the record and the handle; a refresh
\* that yields the same token writes and rebuilds nothing; a refresh that
\* yields another token puts it in the record and rebuilds the handle with it
\* (when neither the write nor the rebuild raises)
PersistOnlyOnChange ==
    [][GateStep =>
         /\ ~(creds.expired /\ creds.refresh_token) =>
                /\ UNCHANGED <<creds, stored, youtube>>
                /\ gateExc' = "none"
         /\ creds'.token = creds.token => UNCHANGED <<stored, youtube>>
         /\ (creds'.token # creds.token /\ gateExc' = "none") =>
                /\ creds.expired /\ creds.refresh_token
                /\ stored' = creds'.token
                /\ youtube' = creds'.token]_vars

\* a refresh changed the token, and the record and the handle follow
RefreshedAndPersisted ==
    /\ pc = "returned"
    /\ mode = "refresh_if_needed"
    /\ gateExc = "none"
    /\ creds.token = 2
    /\ stored = 2
    /\ youtube = 2

\* C14: when channels().list(mine=True) yields no item, get_active_live_chat_id
\* returns (None, None) without raising; neither search.list nor videos.list
\* is called and neither cache holds an entry afterwards
NoChannelNoDiscovery ==
    [][(pc = "channel" /\ Got("channels.list", "empty")')
          => /\ pc' = "returned"
             /\ ret' = NoRet
             /\ ~HasCall("search.list")'
             /\ ~HasCall("videos.list")'
             /\ cached_channel_id' = NoChannelCache
             /\ cached_live_chat_id' = NoChatCache]_vars

\* channels.list found no channel and the resolver has returned
ReturnedWithoutChannel ==
    /\ pc = "returned"
    /\ mode = "get_active_live_chat_id"
    /\ Got("channels.list", "empty")

\* C15: when videos.list returns no item, or an item without a chat id,
\* get_active_live_chat_id returns (None, video_id); when search.list finds
\* no live video it returns (None, None); the chat cache holds no entry
\* afterwards in either case
NoChatNotCached ==
    [][/\ (pc = "videos"
             /\ \/ Got("videos.list", "noitems")'
                \/ Got("videos.list", "nodetails")'
                \/ Got("videos.list", "nochat")')
          => /\ pc' = "returned"
             /\ ret' = [live_chat_id |-> NoneId, video_id |-> video_id]
             /\ video_id = LiveVideoId
             /\ cached_live_chat_id' = NoChatCache
       /\ (pc = "search" /\ Got("search.list", "empty")')
          => /\ pc' = "returned"
             /\ ret' = NoRet
             /\ ~HasCall("videos.list")'
             /\ cached_live_chat_id' = NoChatCache]_vars

\* the live video has no chat: the resolver returned (None, video_id)
ReturnedVideoWithoutChat ==
    /\ pc = "returned"
    /\ Got("videos.list", "nochat")
    /\ ret = [live_chat_id |-> NoneId, video_id |-> LiveVideoId]

\* C16: in poll_chat every FETCH is preceded, in its own iteration of the
\* loop, by a call of refresh_if_needed (the call before the loop is counted
\* for the first iteration)
GateBeforeEveryFetch ==
    pc = "fetching" =>
        \E i \in 1 .. Len(calls) :
            /\ calls[i].op = "refresh_if_needed"
            /\ \E j \in (i + 1) .. Len(calls) :
                   calls[j].op = "liveChatMessages.list"

\* C17: no remote call is made with a credential that is expired and has
\* no refresh token
NoCallWhileUnusable == \A i \in 1 .. Len(calls) : calls[i].usable

\* C18: when the refresh, or the write of TOKEN_PATH after it, fails,
\* refresh_if_needed swallows the failure and the record of TOKEN_PATH and
\* the handle are as they were before the call
FailedRefreshChangesNothing ==
    [][(GateStep /\ gateExc' \in {"refresh", "open", "write"})
          => UNCHANGED <<stored, youtube>>]_vars

\* C19: an iteration that succeeds sets page_token to the nextPageToken of
\* its page, None when the page has none; page_token is assigned nowhere
\* else in the loop, and every FETCH is issued with the page_token of the
\* moment
TokenFollowsPage ==
    [][/\ (pc = "dispatch" /\ pc' = "sleep") =>
              page_token' = resp.nextPageToken
       /\ (pc # "idle" /\ ~(pc = "dispatch" /\ pc' = "sleep")) =>
              page_token' = page_token
       /\ (pc = "fetch" /\ pc' = "fetching") => sentToken' = page_token]_vars

\* a FETCH sent with a token got a page without one: page_token is None again
TokenDropped ==
    /\ pc = "sleep"
    /\ sentToken # NoToken
    /\ resp.nextPageToken = NoToken
    /\ page_token = NoToken

\* C20: the loop is sequential: a FETCH is issued only when none is in
\* flight; on_message runs only between the return of a FETCH and the sleep
\* that follows; the way from one FETCH to the next goes through exactly one
\* sleep (the pacing sleep after a page, the backoff sleep after a failure),
\* which ends only by running its full time
LoopIsSequential ==
    [][/\ pc' # pc =>
            \/ pc = "idle" /\ pc' \in {"fetch", "raised"}
            \/ pc = "fetch" /\ pc' = "fetching"
            \/ pc = "fetching" /\ pc' \in {"dispatch", "except"}
            \/ pc = "dispatch" /\ pc' \in {"sleep", "except"}
            \/ pc = "sleep" /\ pc' = "fetch"
            \/ pc = "except" /\ pc' = "backoff_sleep"
            \/ pc = "backoff_sleep" /\ pc' = "fetch"
       /\ pageLog' # pageLog /\ pageLog' # <<>> =>
            pc = "dispatch" /\ pc' = "dispatch"
       /\ sentToken' # sentToken => pc = "fetch"
       /\ pc \in {"sleep", "backoff_sleep"} =>
            /\ pc' # pc => window' = Advance(window, sleeping)
            /\ pc' = pc => sleeping' = sleeping
       /\ pc' = "sleep" /\ pc # "sleep" =>
            sleeping' = Polling(resp.pollingIntervalMillis, min_poll, max_poll)
       /\ pc' = "backoff_sleep" /\ pc # "backoff_sleep" =>
            sleeping' = BackoffDelay(error_backoff, max_poll)]_vars

\* a FETCH failed, the backoff sleep has run its time and the next FETCH is
\* about to be issued
SleptBeforeRetry ==
    /\ pc = "fetch"
    /\ lastFail = "fetch"
    /\ error_backoff = FromInt(BackoffFactor)

\* ------------------------------------------------ claims C21 to C27
\* C21: get_active_live_chat_id called while the chat entry is fresh returns
\* the cached (live_chat_id, video_id) at once: no remote call, no call of
\* refresh_if_needed, and the credential, the record of TOKEN_PATH, the
\* handle and both caches are as they were
CacheHitTouchesNothing ==
    [][(pc = "idle" /\ mode' = "get_active_live_chat_id"
          /\ cached_live_chat_id.set /\ age.chat.e < age.chat.ttl)
          => /\ pc' = "returned"
             /\ ret' = [live_chat_id |-> cached_live_chat_id.live_chat_id,
                        video_id |-> cached_live_chat_id.video_id]
             /\ calls' = <<>>
             /\ UNCHANGED <<creds, stored, youtube, cached_channel_id,
                            cached_live_chat_id>>]_vars

\* the cached pair was returned while the credential was expired and
\* refreshable and the channel entry was stale: both were left alone
HitWithStaleChannelAndCredential ==
    /\ pc = "returned"
    /\ mode = "get_active_live_chat_id"
    /\ calls = <<>>
    /\ ret.live_chat_id = LiveChatId
    /\ creds.expired
    /\ creds.refresh_token
    /\ cached_channel_id.set
    /\ cached_channel_id.expiry = 0

\* the remote calls of the log, in the order they were issued
RemoteOps == {"channels.list", "search.list", "videos.list"}
IsRemote(c) == c.op \in RemoteOps
Issued == SelectSeq(calls, IsRemote)
Failed(c) == c.out \in {"HttpError", "Exception"}
ResolverOrder == <<"channels.list", "search.list", "videos.list">>

\* C22: one call of get_active_live_chat_id issues channels.list, search.list
\* and videos.list at most once each and in that order (channels.list is left
\* out when the channel entry is fresh); a call that fails is the last one,
\* the resolver returns (None, None) and the chat cache stays empty
OneAttemptPerRemoteCall ==
    mode = "get_active_live_chat_id" =>
      /\ Len(Issued) <= 3
      /\ \/ \A i \in 1 .. Len(Issued) : Issued[i].op = ResolverOrder[i]
         \/ /\ Len(Issued) <= 2
            /\ \A i \in 1 .. Len(Issued) : Issued[i].op = ResolverOrder[i + 1]
      /\ \A i \in 1 .. Len(Issued) :
           Failed(Issued[i]) =>
             /\ i = Len(Issued)
             /\ pc = "returned"
             /\ ret = NoRet
             /\ ~cached_live_chat_id.set

\* videos.list, the third call, failed and the resolver returned (None, None)
ThirdCallFailed ==
    /\ pc = "returned"
    /\ mode = "get_active_live_chat_id"
    /\ Len(Issued) = 3
    /\ Issued[3].out = "HttpError"
    /\ ret = NoRet

\* this step calls channels().list
ListsChannels ==
    /\ pc = "channel"
    /\ Len(calls') > Len(calls)
    /\ calls'[Len(calls')].op = "channels.list"

\* C23: over any sequence of calls of get_active_live_chat_id,
\* channels().list is called at most once per window of the channel-cache
\* TTL: when it is called, the call before it is at least that long ago
ChannelsListOncePerTtl ==
    [][ListsChannels => (age.list.ttl = -1 \/ age.list.e >= ChannelCacheTtl)]_vars

\* get_active_live_chat_id has returned without a chat id
ReturnedAbsent ==
    /\ pc = "returned"
    /\ mode = "get_active_live_chat_id"
    /\ ret.live_chat_id = NoneId

\* C26 as claimed: every call of the resolver that ends without a chat id
\* ('no channel' included) has issued a fresh search.list
AbsentAlwaysSearches ==
    ReturnedAbsent => HasCall("search.list")

\* C26: an entry of the chat cache always holds a chat id; a call that ends
\* without one caches nothing and was answered by the remote API, not by the
\* cache: by a fresh search.list whenever a channel id was at hand, and by
\* channels.list alone when that call gave no channel id
ChatCacheHoldsChatId ==
    /\ cached_live_chat_id.set =>
         cached_live_chat_id.live_chat_id \notin {NoneId, ""}
    /\ ReturnedAbsent =>
         /\ ~cached_live_chat_id.set
         /\ \/ HasCall("search.list")
            \/ \E out \in ChannelsOutcomes \ {"item"} :
                   Got("channels.list", out)

\* the chat entry had expired, the channel entry was fresh, and the video
\* found by a fresh search had its chat disabled
ExpiredThenChatDisabled ==
    /\ ReturnedAbsent
    /\ age.chat.ttl = CacheTtl
    /\ age.chat.e >= CacheTtl
    /\ ~HasCall("channels.list")
    /\ Got("search.list", "video")
    /\ Got("videos.list", "nochat")

\* this step hands a message to handle_message
HandsOver == pc = "dispatch" /\ pageLog' # pageLog

\* handle_message returned at once: nothing generated, nothing posted
Dropped ==
    /\ pc' = "dispatch"
    /\ idx' = idx + 1
    /\ ~handling'
    /\ UNCHANGED <<cooldowns, replies, calls>>

\* this step posts a reply
PostsReply == pc = "returned" /\ handling /\ replies' # replies

\* a mention less than COOLDOWN_SECONDS after the last accepted mention of
\* its author is dropped; an accepted mention stores its time before
\* anything else is done, and the stored time is left alone when the
\* handler ends, whether or not a reply was posted
CooldownRule ==
    /\ HandsOver =>
         LET a == item'.author
         IN /\ item'.kind # "mention" => Dropped
            /\ (item'.kind = "mention" /\ cooldowns[a] < COOLDOWN_SECONDS)
                  => Dropped
            /\ (item'.kind = "mention" /\ cooldowns[a] >= COOLDOWN_SECONDS)
                  => /\ pc' = "generate"
                     /\ handling'
                     /\ cooldowns' = [cooldowns EXCEPT ![a] = 0]
                     /\ UNCHANGED replies
    /\ (pc = "generate" /\ pc' # pc) =>
         /\ handling
         /\ item.verdict = "accepted"
         /\ UNCHANGED <<cooldowns, replies>>
    /\ (pc = "returned" /\ handling /\ pc' # pc) =>
         /\ ~handling'
         /\ UNCHANGED cooldowns
         /\ \A a \in Authors \ {item.author} : replies'[a] = replies[a]

\* C24 as claimed: the cooldown rule, and two replies to the same author
\* are never posted less than COOLDOWN_SECONDS apart
RepliesNeverCloserThanCooldown ==
    [][/\ CooldownRule
       /\ PostsReply =>
            \/ replies[item.author].chat = NoneId
            \/ replies[item.author].e >= COOLDOWN_SECONDS]_vars

\* C24: a mention less than COOLDOWN_SECONDS after the last accepted mention
\* of its author starts neither generate_reply nor post_message; the time of
\* an accepted mention is stored at once, whether or not a reply gets
\* posted; so the accepted mentions of one author are at least
\* COOLDOWN_SECONDS apart, and a reply is posted only by the handler of an
\* accepted mention, once, as long after the mention as generation, resolver
\* and posting take
CooldownOnAcceptance ==
    [][/\ CooldownRule
       /\ (replies' # replies /\ pc' # pc) =>
            /\ PostsReply
            /\ item.verdict = "accepted"
            /\ ~handling']_vars

\* a mention was dropped 29 s after the accepted mention of the same author,
\* to whom a reply had been posted
DroppedInCooldown ==
    /\ item.verdict = "cooldown"
    /\ replies[item.author].chat # NoneId
    /\ cooldowns[item.author] = COOLDOWN_SECONDS - 1

\* C27: every reply handle_message posts is inserted into the chat that
\* background_poller handed to poll_chat, the chat the message answered came
\* from
ReplyGoesToWatchedChat ==
    \A a \in Authors :
        replies[a].chat # NoneId => replies[a].chat = watching

\* the resolver has returned to background_poller
PollerHasAnswer == pc = "returned" /\ ~handling

\* the steps of background_poller after the resolver returned: poll_chat is
\* called with the chat id returned, and only with a chat id; without one
\* the poller sleeps PollerIdleSeconds and goes round
PollerBranches ==
    /\ (PollerHasAnswer /\ pc' # pc) =>
         IF ret.live_chat_id \notin {NoneId, ""}
         THEN pc' = "fetch" /\ watching' = ret.live_chat_id
         ELSE /\ pc' = "poller_sleep"
              /\ sleeping' = FromInt(PollerIdleSeconds)
              /\ UNCHANGED watching
    /\ watching' # watching =>
         PollerHasAnswer /\ ret.live_chat_id \notin {NoneId, ""}
    /\ (pc = "poller_sleep" /\ pc' # pc) => pc' = "idle"

\* C25: background_poller calls poll_chat only with a chat id the resolver
\* has just returned; without one it sleeps 10 s and calls the resolver
\* again, as often as it takes; once the resolver returns a chat id, that
\* chat is polled; the poller never ends
PollerKeepsResolving ==
    /\ [][PollerBranches]_vars
    /\ [](pc \notin {"done", "raised"})
    /\ (pc = "poller_sleep") ~> PollerHasAnswer
    /\ \A c \in {LiveChatId, NextLiveChatId} :
         (PollerHasAnswer /\ ret.live_chat_id = c)
            ~> (pc = "fetching" /\ watching = c)

\* the first call of the resolver found the channel and no live chat; the
\* poller slept, called again, got a chat id and has issued the first FETCH
PollingAfterIdleRound ==
    /\ pc = "fetching"
    /\ watching = LiveChatId
    /\ item = NoItem
    /\ age.channel.ttl = ChannelCacheTtl
    /\ age.channel.e >= 1
    /\ age.chat.e = 0

====
